---- MODULE Spec2Model ----
(***************************************************************************)
(* Lifting diary: the workout data-access layer (data/workouts.ts), the    *)
(* create/update server actions and the pages that read through them, the  *)
(* weight-unit preference, and the client components of the dashboard and  *)
(* of the workout forms.                                                   *)
(*                                                                         *)
(* Time is counted in milliseconds since a UTC midnight (day 0).  A        *)
(* JavaScript number that may be NaN is a record [t |-> "num", v |-> n] or *)
(* [t |-> "nan"]; an optional value that is absent is [t |-> "undefined"], *)
(* a database NULL is [t |-> "null"].  Strings that the code parses        *)
(* character by character (parseInt) are sequences of one-character        *)
(* strings.                                                                *)
(***************************************************************************)
EXTENDS Integers, Sequences, FiniteSets, TLC

VARIABLES
    tz,         \* offset of the server's local time from UTC, in ms
    workouts,   \* the rows of table "workouts"
    nextId,     \* the serial sequence behind workouts.id
    clock,      \* the server's wall clock as read by new Date() on a write
    cache,      \* paths whose rendering is held in the framework's cache
    last,       \* the request being answered: what was called, what comes back;
                \* [op |-> "none"] once the answer has reached the caller
    exercises,          \* the rows of table "exercises"
    workoutExercises,   \* the rows of table "workout_exercises"
    sets,               \* the rows of table "sets"
    serial,     \* the serial sequences behind exercises.id, workout_exercises.id
                \* and sets.id
    inflight,   \* server-action calls that run at the same time: per call, how
                \* far it has got and what it holds
    cookie,     \* the browser's 'weight-unit' cookie
    client,     \* the state of the DashboardClient component in the browser
    form        \* the state of the workout form in the browser

vars == <<tz, workouts, nextId, clock, cache, last,
          exercises, workoutExercises, sets, serial, inflight, cookie, client, form>>

\* what lives in the browser
browser == <<cookie, client, form>>

\* the tables that only hold the exercises and sets of workouts
detailTables == <<exercises, workoutExercises, sets, serial>>

----------------------------------------------------------------------------
(* Bounds of the model *)

\* at most this many successful store writes (inserts and updates) in a run
MaxWrites == 2

----------------------------------------------------------------------------
(* JavaScript values *)

Num(n) == [t |-> "num", v |-> n]
NaN == [t |-> "nan"]
Undefined == [t |-> "undefined"]
Null == [t |-> "null"]
Str(s) == [t |-> "string", v |-> s]

isNaN(x) == x.t = "nan"

\* JavaScript truthiness of a number | undefined | null, as used by `||`
Truthy(x) == x.t = "num" /\ x.v # 0

Digits == <<"0", "1", "2", "3", "4", "5", "6", "7", "8", "9">>
IsDigit(c) == \E i \in 1..10 : Digits[i] = c
DigitValue(c) == (CHOOSE i \in 1..10 : Digits[i] = c) - 1
IsSpace(c) == c = " "

RECURSIVE SkipSpaces(_)
SkipSpaces(s) ==
    IF s # <<>> /\ IsSpace(Head(s)) THEN SkipSpaces(Tail(s)) ELSE s

\* the longest prefix of s made of decimal digits
RECURSIVE DigitPrefix(_)
DigitPrefix(s) ==
    IF s # <<>> /\ IsDigit(Head(s)) THEN <<Head(s)>> \o DigitPrefix(Tail(s)) ELSE <<>>

RECURSIVE DecimalValue(_, _)
DecimalValue(ds, acc) ==
    IF ds = <<>> THEN acc ELSE DecimalValue(Tail(ds), 10 * acc + DigitValue(Head(ds)))

\* parseInt(val, 10): leading white space, an optional sign, then the longest
\* run of digits; NaN when there is no digit
parseInt(s) ==
    LET body == SkipSpaces(s)
        neg == body # <<>> /\ Head(body) = "-"
        signed == body # <<>> /\ Head(body) \in {"-", "+"}
        ds == DigitPrefix(IF signed THEN Tail(body) ELSE body)
    IN  IF ds = <<>> THEN NaN
        ELSE Num(IF neg THEN 0 - DecimalValue(ds, 0) ELSE DecimalValue(ds, 0))

----------------------------------------------------------------------------
(* Dates *)

HourMs == 60 * 60 * 1000
DayMs == 24 * HourMs

\* the time zones the server may run in
TimeZones == {0 - 5 * HourMs, 0, 2 * HourMs}

\* Date strings, by their form: date-only ISO text, ISO date-time text
\* without an offset, and text that is no date
DateOnly(d) == [form |-> "YYYY-MM-DD", day |-> d, ms |-> 0]
LocalDateTime(d, t) == [form |-> "YYYY-MM-DDTHH:mm:ss.sss", day |-> d, ms |-> t]
NotADate == [form |-> "text", day |-> 0, ms |-> 0]

\* Date.parse(val): a date-only form is UTC midnight, a date-time form
\* without offset is local time, anything else is NaN
DateParse(val) ==
    IF val.form = "YYYY-MM-DD" THEN Num(val.day * DayMs)
    ELSE IF val.form = "YYYY-MM-DDTHH:mm:ss.sss" THEN Num(val.day * DayMs + val.ms - tz)
    ELSE NaN

\* new Date(year, month - 1, day): local midnight of a calendar day
LocalDate(d) == d * DayMs - tz

\* d.setHours(h, m, s, ms) on a copy of d: the given local time on d's local day
SetHours(date, msOfDay) == ((date + tz) \div DayMs) * DayMs - tz + msOfDay

----------------------------------------------------------------------------
(* Identity provider *)

Users == {"user_1", "user_2"}

\* auth() yields no userId for a signed-out request
NoUser == ""
Principals == Users \cup {NoUser}

----------------------------------------------------------------------------
(* Validation: createWorkoutSchema / updateWorkoutSchema *)

MaxNameLength == 255

\* the name check with the upper limit exclusive
NameIssues_MaxExclusive(name) ==
    IF Len(name) < 1 THEN <<"Workout name is required">>
    ELSE IF Len(name) >= MaxNameLength THEN <<"Workout name is too long">>
    ELSE <<>>

\* z.string().min(1, ...).max(255, ...)
NameIssues(name) ==
    IF Len(name) < 1 THEN <<"Workout name is required">>
    ELSE IF Len(name) > MaxNameLength THEN <<"Workout name is too long">>
    ELSE <<>>

\* z.string().refine((val) => !isNaN(Date.parse(val)), ...)
DateIssues(date) ==
    IF isNaN(DateParse(date)) THEN <<"Invalid date format">> ELSE <<>>

\* z.string().optional().transform(...): blank and absent give undefined,
\* otherwise parseInt, with NaN turned into undefined
DurationTransform(val) ==
    IF val.t = "undefined" \/ val.v = <<>> THEN Undefined
    ELSE LET num == parseInt(val.v) IN IF isNaN(num) THEN Undefined ELSE num

\* error.flatten().fieldErrors: the fields that have issues, with their messages
FieldErrors(nameIssues, dateIssues) ==
    [k \in {f \in {"name", "date"} :
                IF f = "name" THEN nameIssues # <<>> ELSE dateIssues # <<>>}
        |-> IF k = "name" THEN nameIssues ELSE dateIssues]

\* the create schema with name: z.string() alone
createWorkoutSchema_NameUnchecked(params) ==
    LET di == DateIssues(params.date)
    IN  IF di = <<>>
        THEN [success |-> TRUE,
              data |-> [name |-> params.name, date |-> params.date,
                        durationMinutes |-> DurationTransform(params.durationMinutes)]]
        ELSE [success |-> FALSE, fieldErrors |-> FieldErrors(<<>>, di)]

\* createWorkoutSchema.safeParse(params)
createWorkoutSchema(params) ==
    LET ni == NameIssues(params.name)
        di == DateIssues(params.date)
    IN  IF ni = <<>> /\ di = <<>>
        THEN [success |-> TRUE,
              data |-> [name |-> params.name, date |-> params.date,
                        durationMinutes |-> DurationTransform(params.durationMinutes)]]
        ELSE [success |-> FALSE, fieldErrors |-> FieldErrors(ni, di)]

\* updateWorkoutSchema.safeParse(params): workoutId is no key of the schema
updateWorkoutSchema(params) ==
    LET ni == NameIssues(params.name)
        di == DateIssues(params.date)
    IN  IF ni = <<>> /\ di = <<>>
        THEN [success |-> TRUE,
              data |-> [name |-> params.name, date |-> params.date,
                        durationMinutes |-> DurationTransform(params.durationMinutes)]]
        ELSE [success |-> FALSE, fieldErrors |-> FieldErrors(ni, di)]

----------------------------------------------------------------------------
(* Action results: ActionResult<Workout> *)

Success(workout) == [success |-> TRUE, data |-> workout]
\* errors: string
Failure(message) == [success |-> FALSE, errors |-> [typeof |-> "string", message |-> message]]
\* errors: Record<string, string[]>
FieldFailure(fieldErrors) ==
    [success |-> FALSE, errors |-> [typeof |-> "object", fields |-> fieldErrors]]

\* the data helper was not called / was called with these arguments
NoCall == [t |-> "none"]
Call(args) == [t |-> "call", args |-> args]

----------------------------------------------------------------------------
(* Data layer: data/workouts.ts *)

\* new Date(string) of a string that Date.parse accepts
NewDate(dateString) == DateParse(dateString).v

\* the filter without eq(workouts.userId, userId)
WorkoutsByDateWhere_AnyUser(w, userId, startOfDay, endOfDay) ==
    /\ w.date >= startOfDay
    /\ w.date < endOfDay

\* the filter without gte(workouts.date, startOfDay)
WorkoutsByDateWhere_NoLowerBound(w, userId, startOfDay, endOfDay) ==
    /\ w.userId = userId
    /\ w.date < endOfDay

\* and(eq(workouts.userId, userId), gte(workouts.date, startOfDay),
\*     lt(workouts.date, endOfDay))
WorkoutsByDateWhere(w, userId, startOfDay, endOfDay) ==
    /\ w.userId = userId
    /\ w.date >= startOfDay
    /\ w.date < endOfDay

\* the rows findMany selects for getWorkoutsByDate(userId, date)
WorkoutsByDateRows(userId, date) ==
    LET startOfDay == SetHours(date, 0)
        endOfDay == SetHours(date, 23 * HourMs + 59 * 60 * 1000 + 59 * 1000 + 999)
    IN  {w \in workouts : WorkoutsByDateWhere(w, userId, startOfDay, endOfDay)}

\* ORDER BY a column ascending, key[row] being the row's value in it: the
\* orders in which the store may hand back the rows; the statement fixes no
\* order among rows with equal keys
RECURSIVE OrderBy(_, _)
OrderBy(rows, key) ==
    IF rows = {} THEN {<<>>}
    ELSE LET firsts == {r \in rows : \A q \in rows : key[r] <= key[q]}
         IN  UNION {{<<first>> \o others : others \in OrderBy(rows \ {first}, key)} :
                       first \in firsts}

\* array.map(f) where f's outcome for the i-th element is one of options[i]
MapAny(options) ==
    LET mapped[k \in 0..Len(options)] ==
            IF k = 0 THEN {<<>>}
            ELSE {Append(r, x) : r \in mapped[k - 1], x \in options[k]}
    IN  mapped[Len(options)]

\* we.sets.map(set => ({id, setNumber, reps, weight}))
SetDetails(set) ==
    [id |-> set.id, setNumber |-> set.setNumber, reps |-> set.reps, weight |-> set.weight]

\* sets: {orderBy: (sets, {asc}) => [asc(sets.setNumber)]}
SetsOf(we) ==
    LET rows == {s \in sets : s.workoutExerciseId = we.id}
    IN  OrderBy(rows, [s \in rows |-> s.setNumber])

\* exercise: true
ExerciseOf(we) == CHOOSE e \in exercises : e.id = we.exerciseId

\* workout.workoutExercises.map(we => ({id: we.exercise.id, ..., sets}))
ExerciseDetails(we) ==
    {[id |-> ExerciseOf(we).id,
      name |-> ExerciseOf(we).name,
      muscleGroup |-> ExerciseOf(we).muscleGroup,
      orderIndex |-> we.orderIndex,
      sets |-> [i \in DOMAIN ss |-> SetDetails(ss[i])]] : ss \in SetsOf(we)}

\* the nested rows in the order of their ids
WorkoutExercisesOf_ById(workout) ==
    LET rows == {we \in workoutExercises : we.workoutId = workout.id}
    IN  OrderBy(rows, [we \in rows |-> we.id])

\* workoutExercises: {..., orderBy: (workoutExercises, {asc}) =>
\*                              [asc(workoutExercises.orderIndex)]}
WorkoutExercisesOf(workout) ==
    LET rows == {we \in workoutExercises : we.workoutId = workout.id}
    IN  OrderBy(rows, [we \in rows |-> we.orderIndex])

\* workoutData.map(workout => ({id, name, date, durationMinutes, exercises}))
WorkoutWithDetails(workout) ==
    {[id |-> workout.id, name |-> workout.name, date |-> workout.date,
      durationMinutes |-> workout.durationMinutes, exercises |-> ex] :
        ex \in UNION {MapAny([i \in DOMAIN wes |-> ExerciseDetails(wes[i])]) :
                         wes \in WorkoutExercisesOf(workout)}}

\* getWorkoutsByDate(userId, date): the arrays it may return, the rows ordered
\* by [desc(workouts.date)]
getWorkoutsByDate(userId, date) ==
    LET found == WorkoutsByDateRows(userId, date)
    IN  UNION {MapAny([i \in DOMAIN rows |-> WorkoutWithDetails(rows[i])]) :
                  rows \in OrderBy(found, [w \in found |-> 0 - w.date])}

\* the insert with durationMinutes: data.durationMinutes ?? 0
createWorkoutHelper_ZeroDuration(data) ==
    [id |-> nextId,
     userId |-> data.userId,
     name |-> data.name,
     date |-> data.date,
     durationMinutes |-> IF data.durationMinutes.t = "num" THEN data.durationMinutes
                         ELSE Num(0),
     createdAt |-> clock,
     updatedAt |-> clock]

\* createWorkoutHelper(data): the row that insert(...).returning() yields
createWorkoutHelper(data) ==
    [id |-> nextId,
     userId |-> data.userId,
     name |-> data.name,
     date |-> data.date,
     durationMinutes |-> IF Truthy(data.durationMinutes) THEN data.durationMinutes ELSE Null,
     createdAt |-> clock,
     updatedAt |-> clock]

\* the lookup by id alone
WorkoutByIdWhere_IdOnly(w, workoutId, userId) == w.id = workoutId

\* getWorkoutById(workoutId, userId): id and owner in one predicate
WorkoutByIdWhere(w, workoutId, userId) ==
    /\ w.id = workoutId
    /\ w.userId = userId

getWorkoutById(workoutId, userId) ==
    LET rows == {w \in workouts : WorkoutByIdWhere(w, workoutId, userId)}
    IN  IF rows = {} THEN Null ELSE [t |-> "row", v |-> CHOOSE w \in rows : TRUE]

\* updateWorkoutHelper(workoutId, userId, data): the WHERE of the update
UpdateWorkoutWhere(w, workoutId, userId) ==
    /\ w.id = workoutId
    /\ w.userId = userId

\* an update that writes the name alone
UpdateWorkoutSet_NameOnly(w, data) ==
    [w EXCEPT !.name = data.name, !.updatedAt = clock]

\* ... and the row it writes: the three fields and a fresh updatedAt
UpdateWorkoutSet(w, data) ==
    [w EXCEPT !.name = data.name,
              !.date = data.date,
              !.durationMinutes =
                  IF Truthy(data.durationMinutes) THEN data.durationMinutes ELSE Null,
              !.updatedAt = clock]

\* the table after updateWorkoutHelper(workoutId, userId, data)
updateWorkoutHelper(workoutId, userId, data) ==
    {IF UpdateWorkoutWhere(w, workoutId, userId) THEN UpdateWorkoutSet(w, data) ELSE w :
        w \in workouts}

\* ... and what .returning() yields: the updated row, or nothing
updateWorkoutReturning(workoutId, userId, data) ==
    LET rows == {w \in workouts : UpdateWorkoutWhere(w, workoutId, userId)}
    IN  IF rows = {} THEN Null
        ELSE [t |-> "row", v |-> UpdateWorkoutSet(CHOOSE w \in rows : TRUE, data)]

----------------------------------------------------------------------------
(* Server actions: createWorkout, updateWorkout *)

\* createWorkout taking the owner from the parameters
createWorkoutArgs_ClientUserId(userId, params, data) ==
    [name |-> data.name,
     date |-> NewDate(data.date),
     durationMinutes |-> data.durationMinutes,
     userId |-> params.userId]

\* the argument createWorkout hands to createWorkoutHelper
createWorkoutArgs(userId, params, data) ==
    [name |-> data.name,
     date |-> NewDate(data.date),
     durationMinutes |-> data.durationMinutes,
     userId |-> userId]

\* updateWorkout taking the owner from the parameters
updateWorkoutArgs_ClientUserId(userId, params, data) ==
    [workoutId |-> params.workoutId,
     userId |-> params.userId,
     data |-> [name |-> data.name,
               date |-> NewDate(data.date),
               durationMinutes |-> data.durationMinutes]]

\* the arguments updateWorkout hands to updateWorkoutHelper
updateWorkoutArgs(userId, params, data) ==
    [workoutId |-> params.workoutId,
     userId |-> userId,
     data |-> [name |-> data.name,
               date |-> NewDate(data.date),
               durationMinutes |-> data.durationMinutes]]

\* updateWorkout without the if (!workout) branch
updateWorkoutResult_NoAbsentCheck(workout) ==
    Success(IF workout.t = "row" THEN workout.v ELSE workout)

\* what updateWorkout returns for the helper's result
updateWorkoutResult(workout) ==
    IF workout.t = "null"
    THEN Failure("Workout not found or you do not have permission to edit it")
    ELSE Success(workout.v)

Request(op, userId, params, helper, storeFailed, result) ==
    [op |-> op, userId |-> userId, params |-> params, helper |-> helper,
     storeFailed |-> storeFailed, result |-> result]

\* createWorkout with a second attempt after a failed store operation
createWorkout_RetryOnce(userId, params, storeFails) ==
    LET parsed == createWorkoutSchema(params)
        args == createWorkoutArgs(userId, params, parsed.data)
        workout == createWorkoutHelper(args)
    IN  /\ last.op = "none"
        /\ IF userId = NoUser
           THEN /\ last' = Request("createWorkout", userId, params, NoCall, FALSE,
                                   Failure("Authentication required"))
                /\ UNCHANGED <<workouts, nextId, clock>>
           ELSE IF ~parsed.success
           THEN /\ last' = Request("createWorkout", userId, params, NoCall, FALSE,
                                   FieldFailure(parsed.fieldErrors))
                /\ UNCHANGED <<workouts, nextId, clock>>
           ELSE /\ clock < MaxWrites
                /\ workouts' = workouts \cup {workout}
                /\ nextId' = nextId + 1
                /\ clock' = clock + 1
                /\ last' = Request("createWorkout", userId, params, Call(args), storeFails,
                                   Success(workout))
        /\ UNCHANGED <<tz, cache, detailTables, inflight, browser>>

\* createWorkout(params) in a request whose auth() yields userId; storeFails:
\* the store operation throws
createWorkout(userId, params, storeFails) ==
    LET parsed == createWorkoutSchema(params)
        args == createWorkoutArgs(userId, params, parsed.data)
        workout == createWorkoutHelper(args)
    IN  /\ last.op = "none"
        /\ IF userId = NoUser
           THEN /\ last' = Request("createWorkout", userId, params, NoCall, FALSE,
                                   Failure("Authentication required"))
                /\ UNCHANGED <<workouts, nextId, clock>>
           ELSE IF ~parsed.success
           THEN /\ last' = Request("createWorkout", userId, params, NoCall, FALSE,
                                   FieldFailure(parsed.fieldErrors))
                /\ UNCHANGED <<workouts, nextId, clock>>
           ELSE IF storeFails
           THEN /\ last' = Request("createWorkout", userId, params, Call(args), TRUE,
                                   Failure("Failed to create workout. Please try again."))
                /\ UNCHANGED <<workouts, nextId, clock>>
           ELSE /\ clock < MaxWrites
                /\ workouts' = workouts \cup {workout}
                /\ nextId' = nextId + 1
                /\ clock' = clock + 1
                /\ last' = Request("createWorkout", userId, params, Call(args), FALSE,
                                   Success(workout))
        /\ UNCHANGED <<tz, cache, detailTables, inflight, browser>>

\* updateWorkout validating its input before it looks at the user
updateWorkout_ValidatesFirst(userId, params, storeFails) ==
    LET parsed == updateWorkoutSchema(params)
        args == updateWorkoutArgs(userId, params, parsed.data)
        workout == updateWorkoutReturning(args.workoutId, args.userId, args.data)
    IN  /\ last.op = "none"
        /\ IF ~parsed.success
           THEN /\ last' = Request("updateWorkout", userId, params, NoCall, FALSE,
                                   FieldFailure(parsed.fieldErrors))
                /\ UNCHANGED <<workouts, clock>>
           ELSE IF userId = NoUser
           THEN /\ last' = Request("updateWorkout", userId, params, NoCall, FALSE,
                                   Failure("Authentication required"))
                /\ UNCHANGED <<workouts, clock>>
           ELSE IF storeFails
           THEN /\ last' = Request("updateWorkout", userId, params, Call(args), TRUE,
                                   Failure("Failed to update workout. Please try again."))
                /\ UNCHANGED <<workouts, clock>>
           ELSE /\ workout.t = "row" => clock < MaxWrites
                /\ workouts' = updateWorkoutHelper(args.workoutId, args.userId, args.data)
                /\ clock' = IF workout.t = "row" THEN clock + 1 ELSE clock
                /\ last' = Request("updateWorkout", userId, params, Call(args), FALSE,
                                   updateWorkoutResult(workout))
        /\ UNCHANGED <<tz, nextId, cache, detailTables, inflight, browser>>

\* updateWorkout(params) in a request whose auth() yields userId
updateWorkout(userId, params, storeFails) ==
    LET parsed == updateWorkoutSchema(params)
        args == updateWorkoutArgs(userId, params, parsed.data)
        workout == updateWorkoutReturning(args.workoutId, args.userId, args.data)
    IN  /\ last.op = "none"
        /\ IF userId = NoUser
           THEN /\ last' = Request("updateWorkout", userId, params, NoCall, FALSE,
                                   Failure("Authentication required"))
                /\ UNCHANGED <<workouts, clock>>
           ELSE IF ~parsed.success
           THEN /\ last' = Request("updateWorkout", userId, params, NoCall, FALSE,
                                   FieldFailure(parsed.fieldErrors))
                /\ UNCHANGED <<workouts, clock>>
           ELSE IF storeFails
           THEN /\ last' = Request("updateWorkout", userId, params, Call(args), TRUE,
                                   Failure("Failed to update workout. Please try again."))
                /\ UNCHANGED <<workouts, clock>>
           ELSE /\ workout.t = "row" => clock < MaxWrites
                /\ workouts' = updateWorkoutHelper(args.workoutId, args.userId, args.data)
                /\ clock' = IF workout.t = "row" THEN clock + 1 ELSE clock
                /\ last' = Request("updateWorkout", userId, params, Call(args), FALSE,
                                   updateWorkoutResult(workout))
        /\ UNCHANGED <<tz, nextId, cache, detailTables, inflight, browser>>

----------------------------------------------------------------------------
(* Weights: lib/weight-utils.ts.  A weight that is a number and not NaN is  *)
(* an exact decimal: [t |-> "num", neg, mag, exp] stands for                *)
(* (-1)^neg * mag / 10^exp, with mag a natural number written in limbs of   *)
(* three decimal digits, lowest limb first, no leading zero limb (0 is      *)
(* <<>>).  Products are exact; the rounding of a double to 53 bits, which   *)
(* is below 10^-15 of the value, is not modelled, and neither are           *)
(* Infinity, -0 and the exponent form of parseFloat.                        *)

\* the limbs' base
LimbBase == 1000

\* the natural number n in limbs
RECURSIVE Big(_)
Big(n) == IF n = 0 THEN <<>> ELSE <<n % LimbBase>> \o Big(n \div LimbBase)

RECURSIVE BigAddCarry(_, _, _)
BigAddCarry(a, b, carry) ==
    IF a = <<>> /\ b = <<>> THEN Big(carry)
    ELSE LET x == IF a = <<>> THEN 0 ELSE Head(a)
             y == IF b = <<>> THEN 0 ELSE Head(b)
             t == x + y + carry
         IN  <<t % LimbBase>> \o BigAddCarry(IF a = <<>> THEN a ELSE Tail(a),
                                             IF b = <<>> THEN b ELSE Tail(b),
                                             t \div LimbBase)

BigAdd(a, b) == BigAddCarry(a, b, 0)

RECURSIVE BigMulCarry(_, _, _)
BigMulCarry(a, k, carry) ==
    IF a = <<>> THEN Big(carry)
    ELSE LET t == Head(a) * k + carry
         IN  <<t % LimbBase>> \o BigMulCarry(Tail(a), k, t \div LimbBase)

\* a times k, for a number k of one limb or little more
BigMulSmall(a, k) == IF k = 0 THEN <<>> ELSE BigMulCarry(a, k, 0)

RECURSIVE BigMul(_, _)
BigMul(a, b) ==
    IF a = <<>> \/ b = <<>> THEN <<>>
    ELSE LET rest == BigMul(a, Tail(b))
         IN  BigAdd(BigMulSmall(a, Head(b)), IF rest = <<>> THEN <<>> ELSE <<0>> \o rest)

\* a times 10^d
RECURSIVE BigScale10(_, _)
BigScale10(a, d) == IF d = 0 THEN a ELSE BigScale10(BigMulSmall(a, 10), d - 1)

RECURSIVE BigLess(_, _)
BigLess(a, b) ==
    IF Len(a) # Len(b) THEN Len(a) < Len(b)
    ELSE IF a = <<>> THEN FALSE
    ELSE IF a[Len(a)] # b[Len(b)] THEN a[Len(a)] < b[Len(b)]
    ELSE BigLess(SubSeq(a, 1, Len(a) - 1), SubSeq(b, 1, Len(b) - 1))

RECURSIVE BigStrip(_)
BigStrip(a) ==
    IF a # <<>> /\ a[Len(a)] = 0 THEN BigStrip(SubSeq(a, 1, Len(a) - 1)) ELSE a

RECURSIVE BigSubBorrow(_, _, _)
BigSubBorrow(a, b, borrow) ==
    IF a = <<>> THEN <<>>
    ELSE LET y == IF b = <<>> THEN 0 ELSE Head(b)
             t == Head(a) - y - borrow
         IN  <<IF t < 0 THEN t + LimbBase ELSE t>>
                 \o BigSubBorrow(Tail(a), IF b = <<>> THEN b ELSE Tail(b),
                                 IF t < 0 THEN 1 ELSE 0)

\* a minus b, for a >= b
BigSub(a, b) == BigStrip(BigSubBorrow(a, b, 0))

\* the number n / 10^e, n an integer
Decimal(n, e) ==
    [t |-> "num", neg |-> n < 0, mag |-> Big(IF n < 0 THEN 0 - n ELSE n), exp |-> e]

\* x * y
Times(x, y) ==
    [t |-> "num", neg |-> x.neg # y.neg, mag |-> BigMul(x.mag, y.mag),
     exp |-> x.exp + y.exp]

\* parseFloat(s): leading white space, an optional sign, digits with an
\* optional fraction; NaN when there is no digit
parseFloat(s) ==
    LET body == SkipSpaces(s)
        neg == body # <<>> /\ Head(body) = "-"
        signed == body # <<>> /\ Head(body) \in {"-", "+"}
        unsigned == IF signed THEN Tail(body) ELSE body
        whole == DigitPrefix(unsigned)
        rest == SubSeq(unsigned, Len(whole) + 1, Len(unsigned))
        fraction == IF rest # <<>> /\ Head(rest) = "." THEN DigitPrefix(Tail(rest))
                    ELSE <<>>
        value == DecimalValue(whole \o fraction, 0)
    IN  IF whole = <<>> /\ fraction = <<>> THEN NaN
        ELSE Decimal(IF neg THEN 0 - value ELSE value, Len(fraction))

\* a factor of four decimal places
LBS_TO_KG_Rounded == Decimal(4536, 4)

\* const LBS_TO_KG = 0.453592
LBS_TO_KG == Decimal(453592, 6)

\* a factor closer to 1 / 0.453592
KG_TO_LBS_Closer == Decimal(220462442, 8)

\* const KG_TO_LBS = 2.20462
KG_TO_LBS == Decimal(220462, 5)

\* convertWeight looking at the target unit alone
convertWeight_IgnoresFromUnit(weight, fromUnit, toUnit) ==
    LET numWeight == IF weight.t = "string" THEN parseFloat(weight.v) ELSE weight
    IN  IF isNaN(numWeight) THEN Decimal(0, 0)
        ELSE IF toUnit = "kg" THEN Times(numWeight, LBS_TO_KG)
        ELSE Times(numWeight, KG_TO_LBS)

\* convertWeight with the same-unit return ahead of the isNaN check
convertWeight_SameUnitFirst(weight, fromUnit, toUnit) ==
    LET numWeight == IF weight.t = "string" THEN parseFloat(weight.v) ELSE weight
    IN  IF fromUnit = toUnit THEN numWeight
        ELSE IF isNaN(numWeight) THEN Decimal(0, 0)
        ELSE IF fromUnit = "lbs" /\ toUnit = "kg" THEN Times(numWeight, LBS_TO_KG)
        ELSE IF fromUnit = "kg" /\ toUnit = "lbs" THEN Times(numWeight, KG_TO_LBS)
        ELSE numWeight

\* convertWeight(weight, fromUnit, toUnit)
convertWeight(weight, fromUnit, toUnit) ==
    LET numWeight == IF weight.t = "string" THEN parseFloat(weight.v) ELSE weight
    IN  IF isNaN(numWeight) THEN Decimal(0, 0)
        ELSE IF fromUnit = toUnit THEN numWeight
        ELSE IF fromUnit = "lbs" /\ toUnit = "kg" THEN Times(numWeight, LBS_TO_KG)
        ELSE IF fromUnit = "kg" /\ toUnit = "lbs" THEN Times(numWeight, KG_TO_LBS)
        ELSE numWeight

\* a divided by the small number k: quotient (a leading zero limb may be
\* left) and remainder
RECURSIVE BigDivRem(_, _)
BigDivRem(a, k) ==
    IF a = <<>> THEN [q |-> <<>>, r |-> 0]
    ELSE LET high == BigDivRem(Tail(a), k)
             t == high.r * LimbBase + Head(a)
         IN  [q |-> <<t \div k>> \o high.q, r |-> t % k]

\* a without its d lowest decimal digits
RECURSIVE BigDropDigits(_, _)
BigDropDigits(a, d) ==
    IF d = 0 THEN a ELSE BigDropDigits(BigStrip(BigDivRem(a, 10).q), d - 1)

\* the decimal digits of a, highest first, three to the limb
RECURSIVE LimbDigits(_)
LimbDigits(a) ==
    IF a = <<>> THEN <<>>
    ELSE LimbDigits(Tail(a))
             \o <<Digits[(Head(a) \div 100) + 1], Digits[((Head(a) \div 10) % 10) + 1],
                  Digits[(Head(a) % 10) + 1]>>

\* ds without leading zeros, down to `least` digits
RECURSIVE DropLeadingZeros(_, _)
DropLeadingZeros(ds, least) ==
    IF Len(ds) > least /\ Head(ds) = "0" THEN DropLeadingZeros(Tail(ds), least) ELSE ds

\* x.toFixed(fractionDigits) for a number x that is not NaN: the nearest
\* decimal of that many places, a tie going away from zero, as text.  The
\* tie is that of the exact decimal, not of the double next to it.
toFixed(x, fractionDigits) ==
    LET scaled ==
            IF x.exp <= fractionDigits THEN BigScale10(x.mag, fractionDigits - x.exp)
            ELSE BigStrip(BigDivRem(BigAdd(BigDropDigits(x.mag, x.exp - fractionDigits - 1),
                                           Big(5)), 10).q)
        ds == DropLeadingZeros(<<"0">> \o [i \in 1..fractionDigits |-> "0"] \o LimbDigits(scaled),
                               fractionDigits + 1)
        whole == SubSeq(ds, 1, Len(ds) - fractionDigits)
        fraction == SubSeq(ds, Len(ds) - fractionDigits + 1, Len(ds))
    IN  (IF x.neg /\ x.mag # <<>> THEN <<"-">> ELSE <<>>)
            \o whole \o (IF fractionDigits = 0 THEN <<>> ELSE <<".">> \o fraction)

----------------------------------------------------------------------------
(* The weight-unit preference: lib/weight-preference.ts *)

\* const DEFAULT_UNIT: WeightUnit = 'lbs'
DEFAULT_UNIT == "lbs"

\* a type guard that lets every string through
isValidWeightUnit_AnyString(value) == value.t = "string"

\* isValidWeightUnit(value)
isValidWeightUnit(value) == value = Str("lbs") \/ value = Str("kg")

\* cookieStore.get(COOKIE_NAME)?.value
CookieValue == IF cookie.present THEN Str(cookie.value) ELSE Undefined

\* getWeightUnitPreference()
getWeightUnitPreference ==
    LET unit == CookieValue
    IN  IF isValidWeightUnit(unit) THEN unit.v ELSE DEFAULT_UNIT

\* setWeightUnitPreferenceCookie(unit): cookieStore.set(COOKIE_NAME, unit, ...)
setWeightUnitPreferenceCookie(unit) == [present |-> TRUE, value |-> unit]

\* setWeightUnitPreference(unit), the server action of dashboard/actions.ts
setWeightUnitPreference(unit) ==
    /\ last.op = "none"
    /\ cookie' = setWeightUnitPreferenceCookie(unit)
    /\ cache' = cache \ {"/dashboard"}
    /\ last' = [op |-> "setWeightUnitPreference", unit |-> unit,
                result |-> [success |-> TRUE]]
    /\ UNCHANGED <<tz, workouts, nextId, clock, detailTables, inflight, client, form>>

----------------------------------------------------------------------------
(* Pages *)

\* the weight cell showing the stored weight as pounds
WeightCell_AsStored(weight, unit) == toFixed(convertWeight(weight, "lbs", "lbs"), 1)

\* the weight cell of a set: convertWeight(set.weight, 'lbs', unit).toFixed(1)
WeightCell(weight, unit) == toFixed(convertWeight(weight, "lbs", unit), 1)

\* <tr key={set.id}> of the sets table
SetRow(set, unit) ==
    [key |-> set.id, setNumber |-> set.setNumber, reps |-> set.reps,
     weight |-> WeightCell(set.weight, unit)]

\* <div key={exercise.id}> with its sets table
ExerciseBlock(exercise, unit) ==
    [key |-> exercise.id, name |-> exercise.name,
     rows |-> [k \in DOMAIN exercise.sets |-> SetRow(exercise.sets[k], unit)]]

\* the card of one workout of the list
WorkoutCard(workout, unit) ==
    [key |-> workout.id,
     exercises |-> [j \in DOMAIN workout.exercises |->
                       ExerciseBlock(workout.exercises[j], unit)]]

\* DashboardPage({searchParams}) in a request whose auth() yields userId;
\* today: what new Date() yields when there is no date parameter
DashboardPage(userId, dateParam, today) ==
    LET unit == getWeightUnitPreference
        selectedDate == IF dateParam.t = "undefined" THEN today
                        ELSE LocalDate(dateParam.v.day)
    IN  /\ last.op = "none"
        /\ IF userId = NoUser
           THEN /\ last' = Request("DashboardPage", userId, [date |-> dateParam], NoCall,
                                   FALSE, [t |-> "redirect", to |-> "/"])
                /\ UNCHANGED cache
           ELSE /\ \E fetched \in getWorkoutsByDate(userId, selectedDate) :
                      last' = Request("DashboardPage", userId, [date |-> dateParam],
                                      Call([userId |-> userId, date |-> selectedDate]), FALSE,
                                      [t |-> "render", workouts |-> fetched, unit |-> unit,
                                       cards |-> [i \in DOMAIN fetched |->
                                                     WorkoutCard(fetched[i], unit)]])
                /\ cache' = cache \cup {"/dashboard"}
        /\ UNCHANGED <<tz, workouts, nextId, clock, detailTables, inflight, browser>>

\* an edit page that tells another user's workout from no workout
EditWorkoutPageResult_Forbidden(userId, workoutId) ==
    LET workoutIdNum == parseInt(workoutId)
        workout == getWorkoutById(workoutIdNum.v, userId)
    IN  IF userId = NoUser THEN [t |-> "redirect", to |-> "/sign-in"]
        ELSE IF isNaN(workoutIdNum) THEN [t |-> "redirect", to |-> "/dashboard"]
        ELSE IF workout.t = "null"
        THEN IF \E w \in workouts : w.id = workoutIdNum.v
             THEN [t |-> "redirect", to |-> "/forbidden"]
             ELSE [t |-> "redirect", to |-> "/dashboard"]
        ELSE [t |-> "render", workout |-> workout.v]

\* what EditWorkoutPage answers: its redirects, or the form for the workout
EditWorkoutPageResult(userId, workoutId) ==
    LET workoutIdNum == parseInt(workoutId)
        workout == getWorkoutById(workoutIdNum.v, userId)
    IN  IF userId = NoUser THEN [t |-> "redirect", to |-> "/sign-in"]
        ELSE IF isNaN(workoutIdNum) THEN [t |-> "redirect", to |-> "/dashboard"]
        ELSE IF workout.t = "null" THEN [t |-> "redirect", to |-> "/dashboard"]
        ELSE [t |-> "render", workout |-> workout.v]

\* EditWorkoutPage({params}) in a request whose auth() yields userId
EditWorkoutPage(userId, workoutId) ==
    LET workoutIdNum == parseInt(workoutId)
        helper == IF userId = NoUser \/ isNaN(workoutIdNum) THEN NoCall
                  ELSE Call([workoutId |-> workoutIdNum.v, userId |-> userId])
    IN  /\ last.op = "none"
        /\ last' = Request("EditWorkoutPage", userId, [workoutId |-> workoutId], helper,
                           FALSE, EditWorkoutPageResult(userId, workoutId))
        /\ UNCHANGED <<tz, workouts, nextId, clock, cache, detailTables, inflight, browser>>

\* the answer reaches the caller (const result = await createWorkout(data), the
\* rendered page), which may then send its next request
Respond ==
    /\ last.op # "none"
    /\ last' = [op |-> "none"]
    /\ UNCHANGED <<tz, workouts, nextId, clock, cache, detailTables, inflight, browser>>

----------------------------------------------------------------------------
(* Requests the model sends *)

\* form values; userId is a field a client adds to the parameters it sends
WorkoutInputs ==
    {[name |-> "Push", date |-> DateOnly(1), durationMinutes |-> Undefined,
      userId |-> "user_2"],
     [name |-> "Pull", date |-> DateOnly(2), durationMinutes |-> Str(<<"4", "5">>),
      userId |-> "user_1"],
     [name |-> "Push", date |-> LocalDateTime(2, 0),
      durationMinutes |-> Str(<<"-", "5">>), userId |-> "user_1"],
     [name |-> "Pull", date |-> LocalDateTime(1, DayMs - 1),
      durationMinutes |-> Str(<<"0">>), userId |-> "user_2"],
     [name |-> "Push", date |-> DateOnly(1), durationMinutes |-> Str(<<>>),
      userId |-> "user_1"],
     [name |-> "", date |-> DateOnly(1), durationMinutes |-> Str(<<"4", "5">>),
      userId |-> "user_2"],
     [name |-> "Pull", date |-> NotADate, durationMinutes |-> Str(<<>>),
      userId |-> "user_1"],
     [name |-> "", date |-> NotADate, durationMinutes |-> Undefined,
      userId |-> "user_2"]}

\* ids an update or an edit page is asked for: stored ones and one that never is
WorkoutIds == {1, 2, 3}

UpdateInputs ==
    {[workoutId |-> id, name |-> p.name, date |-> p.date,
      durationMinutes |-> p.durationMinutes, userId |-> p.userId] :
        id \in WorkoutIds, p \in WorkoutInputs}

\* ?date= of the dashboard: none, or a calendar day
DateParams == {Undefined} \cup {Str(DateOnly(d)) : d \in {1, 2}}

\* wall-clock instants at which the dashboard is opened without ?date=
Todays == {1 * DayMs + 12 * HourMs}

\* the [workoutId] segment of the edit page's path
WorkoutIdSegments == {<<"1">>, <<"2">>, <<"3">>, <<"x">>}

----------------------------------------------------------------------------
(* The system *)

Init ==
    /\ tz \in TimeZones
    /\ workouts = {}
    /\ nextId = 1
    /\ clock = 0
    /\ cache = {}
    /\ last = [op |-> "none"]
    /\ exercises = {}
    /\ workoutExercises = {}
    /\ sets = {}
    /\ serial = [exercises |-> 1, workoutExercises |-> 1, sets |-> 1]
    /\ inflight = <<>>
    /\ cookie = [present |-> FALSE]
    /\ client = [mounted |-> FALSE]
    /\ form = [mounted |-> FALSE]

Next ==
    \/ \E u \in Principals, p \in WorkoutInputs, f \in BOOLEAN : createWorkout(u, p, f)
    \/ \E u \in Principals, p \in UpdateInputs, f \in BOOLEAN : updateWorkout(u, p, f)
    \/ \E u \in Principals, d \in DateParams, t \in Todays : DashboardPage(u, d, t)
    \/ \E u \in Principals, id \in WorkoutIdSegments : EditWorkoutPage(u, id)
    \/ Respond

Spec == Init /\ [][Next]_vars

----------------------------------------------------------------------------
(* The forms submitted with names at the limits of the name check *)

RECURSIVE NameOfLength(_)
NameOfLength(n) ==
    IF n = 0 THEN ""
    ELSE LET half == NameOfLength(n \div 2)
         IN  IF n % 2 = 0 THEN half \o half ELSE half \o half \o "a"

\* lengths on both sides of min(1) and max(255)
NameLengths == {0, 1, MaxNameLength, MaxNameLength + 1}

NameInputs ==
    {[name |-> NameOfLength(n), date |-> d, durationMinutes |-> Undefined,
      userId |-> "user_2"] : n \in NameLengths, d \in {DateOnly(1), NotADate}}

NameUpdateInputs ==
    {[workoutId |-> id, name |-> p.name, date |-> p.date,
      durationMinutes |-> p.durationMinutes, userId |-> p.userId] :
        id \in WorkoutIds, p \in NameInputs}

NameNext ==
    \/ \E u \in Principals, p \in NameInputs, f \in BOOLEAN : createWorkout(u, p, f)
    \/ \E u \in Principals, p \in NameUpdateInputs, f \in BOOLEAN : updateWorkout(u, p, f)
    \/ Respond

NameSpec == Init /\ [][NameNext]_vars

----------------------------------------------------------------------------
(* The schema's statements on the tables of exercises and sets: inserts and *)
(* deletes under the foreign keys of db/schema.ts.  A serial value is used  *)
(* up by every insert that is attempted.  Columns no query reads back       *)
(* (description, created_at) are left out of the rows.                      *)

\* ids the serial sequences run through
MaxExerciseIds == 2
MaxWorkoutExerciseIds == 3
MaxSetIds == 2

\* the statement's outcome as the caller sees it
Statement(op, id, outcome) == [op |-> op, id |-> id, outcome |-> outcome]

\* db.insert(exercises).values(...).onConflictDoNothing(): name is unique
insertExercise(name, muscleGroup) ==
    /\ last.op = "none"
    /\ serial.exercises <= MaxExerciseIds
    /\ serial' = [serial EXCEPT !.exercises = @ + 1]
    /\ IF \E e \in exercises : e.name = name
       THEN /\ last' = Statement("insertExercise", serial.exercises, "nothing")
            /\ UNCHANGED exercises
       ELSE /\ exercises' = exercises \cup
                    {[id |-> serial.exercises, name |-> name, muscleGroup |-> muscleGroup]}
            /\ last' = Statement("insertExercise", serial.exercises, "done")
    /\ UNCHANGED <<tz, workouts, nextId, clock, cache, workoutExercises, sets, inflight, browser>>

\* workout_id references workouts(id), exercise_id references exercises(id)
WorkoutExerciseKeysHold(workoutId, exerciseId) ==
    /\ \E w \in workouts : w.id = workoutId
    /\ \E e \in exercises : e.id = exerciseId

\* insert into workout_exercises
insertWorkoutExercise(workoutId, exerciseId, orderIndex) ==
    /\ last.op = "none"
    /\ serial.workoutExercises <= MaxWorkoutExerciseIds
    /\ serial' = [serial EXCEPT !.workoutExercises = @ + 1]
    /\ IF WorkoutExerciseKeysHold(workoutId, exerciseId)
       THEN /\ workoutExercises' = workoutExercises \cup
                    {[id |-> serial.workoutExercises, workoutId |-> workoutId,
                      exerciseId |-> exerciseId, orderIndex |-> orderIndex]}
            /\ last' = Statement("insertWorkoutExercise", serial.workoutExercises, "done")
       ELSE /\ last' = Statement("insertWorkoutExercise", serial.workoutExercises,
                                 "rejected")
            /\ UNCHANGED workoutExercises
    /\ UNCHANGED <<tz, workouts, nextId, clock, cache, exercises, sets, inflight, browser>>

\* workout_exercise_id references workout_exercises(id)
SetKeysHold(workoutExerciseId) == \E we \in workoutExercises : we.id = workoutExerciseId

\* insert into sets
insertSet(workoutExerciseId, setNumber, reps, weight) ==
    /\ last.op = "none"
    /\ serial.sets <= MaxSetIds
    /\ serial' = [serial EXCEPT !.sets = @ + 1]
    /\ IF SetKeysHold(workoutExerciseId)
       THEN /\ sets' = sets \cup
                    {[id |-> serial.sets, workoutExerciseId |-> workoutExerciseId,
                      setNumber |-> setNumber, reps |-> reps, weight |-> weight]}
            /\ last' = Statement("insertSet", serial.sets, "done")
       ELSE /\ last' = Statement("insertSet", serial.sets, "rejected")
            /\ UNCHANGED sets
    /\ UNCHANGED <<tz, workouts, nextId, clock, cache, exercises, workoutExercises, inflight, browser>>

\* a cascade that takes the rows of every workout
WorkoutCascade_All(id) == workoutExercises

\* onDelete: 'cascade' of workout_exercises.workout_id: the rows that go with
\* workout id
WorkoutCascade(id) == {we \in workoutExercises : we.workoutId = id}

\* onDelete: 'cascade' of sets.workout_exercise_id: the rows that go with the
\* rows gone of workout_exercises
SetCascade(gone) == {s \in sets : \E we \in gone : we.id = s.workoutExerciseId}

\* delete from workouts where id = ...
deleteWorkout(id) ==
    /\ last.op = "none"
    /\ \E w \in workouts : w.id = id
    /\ workouts' = {w \in workouts : w.id # id}
    /\ workoutExercises' = workoutExercises \ WorkoutCascade(id)
    /\ sets' = sets \ SetCascade(WorkoutCascade(id))
    /\ last' = Statement("deleteWorkout", id, "done")
    /\ UNCHANGED <<tz, nextId, clock, cache, exercises, serial, inflight, browser>>

\* delete from workout_exercises where id = ...
deleteWorkoutExercise(id) ==
    LET gone == {we \in workoutExercises : we.id = id}
    IN  /\ last.op = "none"
        /\ gone # {}
        /\ workoutExercises' = workoutExercises \ gone
        /\ sets' = sets \ SetCascade(gone)
        /\ last' = Statement("deleteWorkoutExercise", id, "done")
        /\ UNCHANGED <<tz, workouts, nextId, clock, cache, exercises, serial, inflight, browser>>

\* delete from sets where id = ...
deleteSet(id) ==
    /\ last.op = "none"
    /\ \E s \in sets : s.id = id
    /\ sets' = {s \in sets : s.id # id}
    /\ last' = Statement("deleteSet", id, "done")
    /\ UNCHANGED <<tz, workouts, nextId, clock, cache, exercises, workoutExercises,
                   serial, inflight, browser>>

\* onDelete: 'restrict' of workout_exercises.exercise_id
ExerciseRestricted(id) == \E we \in workoutExercises : we.exerciseId = id

\* delete from exercises where id = ...
deleteExercise(id) ==
    /\ last.op = "none"
    /\ \E e \in exercises : e.id = id
    /\ IF ExerciseRestricted(id)
       THEN /\ last' = Statement("deleteExercise", id, "rejected")
            /\ UNCHANGED exercises
       ELSE /\ exercises' = {e \in exercises : e.id # id}
            /\ last' = Statement("deleteExercise", id, "done")
    /\ UNCHANGED <<tz, workouts, nextId, clock, cache, workoutExercises, sets, serial,
                   inflight, browser>>

\* the seed's first exercises
InitialExercises ==
    {[name |-> "Bench Press", muscleGroup |-> "Chest"],
     [name |-> "Squat", muscleGroup |-> "Legs"]}

\* order_index and set_number as a client may number them
OrderIndexes == {0, 1, 2}
SetNumbers == {1, 2}

\* a workout as the new-workout form sends it, without a duration
DiaryInputs == {[name |-> "Push", date |-> DateOnly(1), durationMinutes |-> Undefined]}

\* the server runs in UTC and the tables are empty
DiaryInit ==
    /\ Init
    /\ tz = 0

\* One workout is created, exercises are added to it and sets to its first
\* exercise under any numbering, and the day is read back.
OrderNext ==
    \/ \E p \in DiaryInputs : workouts = {} /\ createWorkout("user_1", p, FALSE)
    \/ insertExercise("Squat", "Legs")
    \/ \E o \in OrderIndexes : insertWorkoutExercise(1, 1, o)
    \/ \E n \in SetNumbers : insertSet(1, n, 5, Str(<<"1", "0", "0", ".", "0", "0">>))
    \/ DashboardPage("user_1", Str(DateOnly(1)), 1 * DayMs)
    \/ Respond

OrderSpec == DiaryInit /\ [][OrderNext]_vars

\* Any insert and any delete on the four tables, with keys that may refer to
\* no row.
IntegrityNext ==
    \/ \E p \in DiaryInputs : createWorkout("user_1", p, FALSE)
    \/ \E e \in InitialExercises : insertExercise(e.name, e.muscleGroup)
    \/ \E w \in 1..MaxWrites, e \in 1..MaxExerciseIds : insertWorkoutExercise(w, e, 0)
    \/ \E we \in 1..MaxWorkoutExerciseIds : insertSet(we, 1, 5, Str(<<"1", "0", "0", ".", "0", "0">>))
    \/ \E id \in 1..MaxWrites : deleteWorkout(id)
    \/ \E id \in 1..MaxWorkoutExerciseIds : deleteWorkoutExercise(id)
    \/ \E id \in 1..MaxSetIds : deleteSet(id)
    \/ \E id \in 1..MaxExerciseIds : deleteExercise(id)
    \/ Respond

IntegritySpec == DiaryInit /\ [][IntegrityNext]_vars

----------------------------------------------------------------------------
(* The unit selector: the preference is set while a workout with one        *)
(* exercise and its sets is on the dashboard.                               *)

\* what a client may send as unit: the two buttons of the selector send 'lbs'
\* and 'kg'; the type WeightUnit is gone at run time, so a request made by
\* hand carries any string
ClientUnits == {"lbs", "kg", "stone"}

\* weights as the numeric(6, 2) column returns them
SetWeights == {Str(<<"1", "0", "0", ".", "0", "0">>), Str(<<"1", "8", "5", ".", "5", "0">>)}

PreferenceNext ==
    \/ \E unit \in ClientUnits : setWeightUnitPreference(unit)
    \/ \E p \in DiaryInputs : workouts = {} /\ createWorkout("user_1", p, FALSE)
    \/ insertExercise("Squat", "Legs")
    \/ workoutExercises = {} /\ insertWorkoutExercise(1, 1, 0)
    \/ \E n \in SetNumbers, w \in SetWeights : insertSet(1, n, 5, w)
    \/ DashboardPage("user_1", Str(DateOnly(1)), 1 * DayMs)
    \/ Respond

PreferenceSpec == DiaryInit /\ [][PreferenceNext]_vars

----------------------------------------------------------------------------
(* DashboardClient: the component keeps the selected date, the list it      *)
(* shows and a loading flag.  Its effect starts a load whenever the         *)
(* selected date changes; a load is a call of the server action             *)
(* getWorkoutsByDate(date) whose answer comes back some time later, and the *)
(* rest of loadWorkouts runs when it does.                                  *)

\* loads one component starts
MaxLoads == 3

\* a load that has just been sent
Load(date) == [date |-> date, pc |-> "sent", outcome |-> "pending", data |-> <<>>]

\* the component mounts: the useState initial values, then the effect's first
\* run; today is what new Date() yields
DashboardClientMount(today) ==
    /\ ~client.mounted
    /\ client' = [mounted |-> TRUE, selectedDate |-> today, workouts |-> <<>>,
                  loading |-> TRUE, loads |-> <<Load(today)>>]
    /\ UNCHANGED <<tz, workouts, nextId, clock, cache, last, detailTables, inflight,
                   cookie, form>>

\* onSelect={(date) => date && setSelectedDate(date)} with another day picked,
\* and the effect's run for the new selectedDate: setLoading(true), the call
onSelect(date) ==
    /\ client.mounted
    /\ date # client.selectedDate
    /\ Len(client.loads) < MaxLoads
    /\ client' = [client EXCEPT !.selectedDate = date, !.loading = TRUE,
                                !.loads = Append(@, Load(date))]
    /\ UNCHANGED <<tz, workouts, nextId, clock, cache, last, detailTables, inflight,
                   cookie, form>>

\* the server action getWorkoutsByDate(date) of app/actions/workouts.ts runs
\* for load i in a request whose auth() yields userId; rejects: it throws
getWorkoutsByDateAction(i, userId, rejects) ==
    /\ client.mounted
    /\ i \in DOMAIN client.loads
    /\ client.loads[i].pc = "sent"
    /\ IF rejects
       THEN client' = [client EXCEPT !.loads[i].pc = "answered",
                                     !.loads[i].outcome = "rejected"]
       ELSE \E data \in getWorkoutsByDate(userId, client.loads[i].date) :
               client' = [client EXCEPT !.loads[i].pc = "answered",
                                        !.loads[i].outcome = "fulfilled",
                                        !.loads[i].data = data]
    /\ UNCHANGED <<tz, workouts, nextId, clock, cache, last, detailTables, inflight,
                   cookie, form>>

\* the answer of load i has arrived and loadWorkouts goes on behind its await:
\* setWorkouts(data) unless the call rejected, and setLoading(false) in any case
loadWorkoutsResume(i) ==
    /\ client.mounted
    /\ i \in DOMAIN client.loads
    /\ client.loads[i].pc = "answered"
    /\ client' = [client EXCEPT
                     !.workouts = IF client.loads[i].outcome = "fulfilled"
                                  THEN client.loads[i].data ELSE @,
                     !.loading = FALSE,
                     !.loads[i].pc = "done"]
    /\ UNCHANGED <<tz, workouts, nextId, clock, cache, last, detailTables, inflight,
                   cookie, form>>

\* the days of the calendar a user picks
ClientDays == {LocalDate(1), LocalDate(2)}

\* A user with at most one workout opens the dashboard and picks days while
\* loads are on their way; answers come back in any order.
ClientNext ==
    \/ \E p \in DiaryInputs : workouts = {} /\ createWorkout("user_1", p, FALSE)
    \/ Respond
    \/ \E today \in Todays : DashboardClientMount(today)
    \/ \E date \in ClientDays : onSelect(date)
    \/ \E i \in 1..MaxLoads, rejects \in BOOLEAN : getWorkoutsByDateAction(i, "user_1", rejects)
    \/ \E i \in 1..MaxLoads : loadWorkoutsResume(i)

ClientSpec == DiaryInit /\ [][ClientNext]_vars

----------------------------------------------------------------------------
(* The workout forms: NewWorkoutPage and EditWorkoutForm.  handleSubmit     *)
(* runs up to its await of the server action; the call is answered by the   *)
(* action's return value or it rejects (the request fails, auth() throws);  *)
(* handleSubmit goes on behind the await only when there is an answer.      *)

\* the answer of createWorkout or updateWorkout is on its way to the caller
IsFormAnswer(r) == r.op \in {"createWorkout", "updateWorkout"}

\* what the form's inputs hold at a submit: the date input gives a date-only
\* string or nothing, the duration input a string
FormInputs ==
    {[name |-> "Push", date |-> DateOnly(1), durationMinutes |-> Str(<<>>)],
     [name |-> "", date |-> DateOnly(1), durationMinutes |-> Str(<<"4", "5">>)],
     [name |-> "Pull", date |-> NotADate, durationMinutes |-> Str(<<>>)]}

\* how far handleSubmit has got
FormPc == IF form.mounted THEN form.pc ELSE "unmounted"

\* the form is brought up: kind "new" for NewWorkoutPage, "edit" for
\* EditWorkoutForm with the workout the edit page passed to it
FormMount(kind, workoutId) ==
    /\ FormPc \in {"unmounted", "navigated"}
    /\ kind = "new" \/ getWorkoutById(workoutId, "user_1").t = "row"
    /\ form' = [mounted |-> TRUE, kind |-> kind, workoutId |-> workoutId,
                isSubmitting |-> FALSE, errors |-> <<>>, generalError |-> "",
                pc |-> "idle", data |-> Null]
    /\ UNCHANGED <<tz, workouts, nextId, clock, cache, last, detailTables, inflight,
                   cookie, client>>

\* handleSubmit up to its await: the submit button is disabled while
\* isSubmitting
handleSubmit(data) ==
    /\ FormPc = "idle"
    /\ ~form.isSubmitting
    /\ form' = [form EXCEPT
                   !.isSubmitting = TRUE, !.errors = <<>>, !.generalError = "",
                   !.pc = "calling",
                   !.data = IF form.kind = "edit"
                            THEN [workoutId |-> form.workoutId, name |-> data.name,
                                  date |-> data.date,
                                  durationMinutes |-> data.durationMinutes]
                            ELSE data]
    /\ UNCHANGED <<tz, workouts, nextId, clock, cache, last, detailTables, inflight,
                   cookie, client>>

\* the server action the form awaits runs, in a request of the signed-in user
\* or of nobody
callAction ==
    /\ FormPc = "calling"
    /\ \E userId \in {"user_1", NoUser}, storeFails \in BOOLEAN :
          IF form.kind = "new" THEN createWorkout(userId, form.data, storeFails)
          ELSE updateWorkout(userId, form.data, storeFails)

\* the awaited call rejects
callRejects ==
    /\ FormPc = "calling"
    /\ last.op = "none"
    /\ form' = [form EXCEPT !.pc = "rejected"]
    /\ UNCHANGED <<tz, workouts, nextId, clock, cache, last, detailTables, inflight,
                   cookie, client>>

\* handleSubmit behind its await, with the action's answer as result
handleSubmitResume ==
    /\ FormPc = "calling"
    /\ IsFormAnswer(last)
    /\ form' = IF last.result.success
               THEN [form EXCEPT !.pc = "navigated"]
               ELSE IF last.result.errors.typeof = "string"
               THEN [form EXCEPT !.isSubmitting = FALSE, !.pc = "idle",
                                 !.generalError = last.result.errors.message]
               ELSE [form EXCEPT !.isSubmitting = FALSE, !.pc = "idle",
                                 !.errors = last.result.errors.fields]
    /\ last' = [op |-> "none"]
    /\ UNCHANGED <<tz, workouts, nextId, clock, cache, detailTables, inflight,
                   cookie, client>>

FormNext ==
    \/ FormMount("new", 1)
    \/ \E id \in 1..MaxWrites : FormMount("edit", id)
    \/ \E data \in FormInputs : handleSubmit(data)
    \/ callAction
    \/ callRejects
    \/ handleSubmitResume

\* an awaited call is settled in the end, and a continuation that can run does
FormSpec ==
    /\ DiaryInit
    /\ [][FormNext]_vars
    /\ WF_vars(callAction \/ callRejects)
    /\ WF_vars(handleSubmitResume)

----------------------------------------------------------------------------
(* updateWorkout calls that run at the same time (two tabs).  A call gives  *)
(* way to others at its awaits: it runs up to the await of the data helper, *)
(* the store applies the helper's statement as one step, and the call goes  *)
(* on from the await to its return.                                         *)

\* the calls in flight
Calls == {1, 2}

\* updateWorkout up to await updateWorkoutHelper(...)
updateWorkoutBegin(c, userId, params) ==
    LET parsed == updateWorkoutSchema(params)
    IN  /\ inflight[c].pc = "idle"
        /\ inflight' =
              [inflight EXCEPT ![c] =
                  IF userId = NoUser
                  THEN [pc |-> "done", userId |-> userId, params |-> params,
                        result |-> Failure("Authentication required")]
                  ELSE IF ~parsed.success
                  THEN [pc |-> "done", userId |-> userId, params |-> params,
                        result |-> FieldFailure(parsed.fieldErrors)]
                  ELSE [pc |-> "store", userId |-> userId, params |-> params,
                        args |-> updateWorkoutArgs(userId, params, parsed.data)]]
        /\ UNCHANGED <<tz, workouts, nextId, clock, cache, last, detailTables, browser>>

\* the store runs the helper's statement of call c; storeFails: it throws
updateWorkoutStore(c, storeFails) ==
    LET call == inflight[c]
        args == call.args
        workout == updateWorkoutReturning(args.workoutId, args.userId, args.data)
    IN  /\ call.pc = "store"
        /\ IF storeFails
           THEN /\ inflight' = [inflight EXCEPT ![c] =
                                   [pc |-> "catch", userId |-> call.userId,
                                    params |-> call.params]]
                /\ UNCHANGED <<workouts, clock>>
           ELSE /\ workouts' = updateWorkoutHelper(args.workoutId, args.userId, args.data)
                /\ clock' = IF workout.t = "row" THEN clock + 1 ELSE clock
                /\ inflight' = [inflight EXCEPT ![c] =
                                   [pc |-> "return", userId |-> call.userId,
                                    params |-> call.params, appliedAt |-> clock,
                                    workout |-> workout]]
        /\ UNCHANGED <<tz, nextId, cache, last, detailTables, browser>>

\* updateWorkout from the await to its return
updateWorkoutReturn(c) ==
    LET call == inflight[c]
    IN  /\ call.pc \in {"return", "catch"}
        /\ inflight' =
              [inflight EXCEPT ![c] =
                  IF call.pc = "catch"
                  THEN [pc |-> "done", userId |-> call.userId, params |-> call.params,
                        result |-> Failure("Failed to update workout. Please try again.")]
                  ELSE [pc |-> "done", userId |-> call.userId, params |-> call.params,
                        appliedAt |-> call.appliedAt,
                        result |-> updateWorkoutResult(call.workout)]]
        /\ UNCHANGED <<tz, workouts, nextId, clock, cache, last, detailTables, browser>>

\* the edits of one workout that two tabs send
TabInputs ==
    {[workoutId |-> 1, name |-> "Push", date |-> DateOnly(1),
      durationMinutes |-> Str(<<"4", "5">>)],
     [workoutId |-> 1, name |-> "Pull", date |-> LocalDateTime(2, HourMs),
      durationMinutes |-> Undefined],
     [workoutId |-> 1, name |-> "", date |-> DateOnly(2),
      durationMinutes |-> Undefined]}

\* empty tables and two tabs that have not sent their edit yet
TabInit ==
    /\ tz \in TimeZones
    /\ workouts = {}
    /\ nextId = 1
    /\ clock = 0
    /\ cache = {}
    /\ last = [op |-> "none"]
    /\ exercises = {}
    /\ workoutExercises = {}
    /\ sets = {}
    /\ serial = [exercises |-> 1, workoutExercises |-> 1, sets |-> 1]
    /\ inflight = [c \in Calls |-> [pc |-> "idle"]]
    /\ cookie = [present |-> FALSE]
    /\ client = [mounted |-> FALSE]
    /\ form = [mounted |-> FALSE]

TabNext ==
    \/ \E p \in DiaryInputs : createWorkout("user_1", p, FALSE)
    \/ Respond
    \/ \E c \in Calls, u \in Principals, p \in TabInputs : updateWorkoutBegin(c, u, p)
    \/ \E c \in Calls, f \in BOOLEAN : updateWorkoutStore(c, f)
    \/ \E c \in Calls : updateWorkoutReturn(c)

TabSpec == TabInit /\ [][TabNext]_vars

----------------------------------------------------------------------------
(* Calls of convertWeight *)

\* a caller evaluates convertWeight(weight, fromUnit, toUnit)
convertWeightCall(weight, fromUnit, toUnit) ==
    /\ last.op = "none"
    /\ last' = [op |-> "convertWeight", weight |-> weight, fromUnit |-> fromUnit,
                toUnit |-> toUnit, result |-> convertWeight(weight, fromUnit, toUnit)]
    /\ UNCHANGED <<tz, workouts, nextId, clock, cache, detailTables, inflight, browser>>

\* type WeightUnit = 'lbs' | 'kg'
WeightUnits == {"lbs", "kg"}

\* weights that are numbers: whole ones and ones with two decimals
WeightNumbers ==
    {Decimal(n, e) : n \in {0 - 525, 0, 1, 100, 18550, 999999}, e \in {0, 2}}

\* weights that are strings, as the numeric column comes back and as it never
\* should
WeightStrings ==
    {Str(<<"1", "0", "0", ".", "0", "0">>), Str(<<"1", "8", "5", ".", "5">>),
     Str(<<"-", "5", ".", "2", "5">>), Str(<<" ", "4", "2">>),
     Str(<<"1", "2", "a", "b", "c">>), Str(<<"a", "b", "c">>), Str(<<>>),
     Str(<<".">>), Str(<<"-">>)}

\* what a caller may pass as weight: a number, NaN, a string, or a weight it
\* got from converting pounds to kilograms
WeightInputs ==
    WeightNumbers \cup {NaN} \cup WeightStrings
        \cup {convertWeight(w, "lbs", "kg") : w \in WeightNumbers}

WeightNext ==
    \/ \E w \in WeightInputs, from \in WeightUnits, to \in WeightUnits :
          convertWeightCall(w, from, to)
    \/ Respond

WeightSpec == Init /\ [][WeightNext]_vars

----------------------------------------------------------------------------
(* Vocabulary of the properties *)

\* the dates getWorkoutsByDate is asked for: local midnights and a mid-day instant
QueryDates == {LocalDate(d) : d \in 0..3} \cup Todays

\* the first instant of the local calendar day that holds instant t
CalendarDayStart(t) ==
    CHOOSE m \in {k * DayMs - tz : k \in 0..5} : m <= t /\ t < m + DayMs

\* the stored row behind a returned workout
StoredRow(id) == CHOOSE w \in workouts : w.id = id

\* a name of 1 to 255 characters and a date that is one
InputIsValid(p) ==
    /\ Len(p.name) >= 1
    /\ Len(p.name) <= 255
    /\ p.date.form # "text"

\* the elements of an array
Listed(array) == {array[i] : i \in DOMAIN array}

\* the workouts that getWorkoutsByDate(userId, date) may return
Returned(userId, date) == UNION {Listed(res) : res \in getWorkoutsByDate(userId, date)}

IsMutation(r) == r.op \in {"createWorkout", "updateWorkout"}

\* the decimal numeral of n, 1 <= n <= 99
Numeral(n) ==
    IF n < 10 THEN <<Digits[n + 1]>> ELSE <<Digits[(n \div 10) + 1], Digits[(n % 10) + 1]>>

\* the duration the action handed to the data helper
PassedDuration(r) ==
    IF r.op = "createWorkout" THEN r.helper.args.durationMinutes
    ELSE r.helper.args.data.durationMinutes

NotFoundMessage == "Workout not found or you do not have permission to edit it"

----------------------------------------------------------------------------
(* Properties *)

\* C1: in every reachable state, for every user and every date, each workout
\* that getWorkoutsByDate(userId, date) returns is stored with that userId.
C1_OnlyOwnWorkoutsByDate ==
    \A u \in Users, d \in QueryDates :
        \A r \in Returned(u, d) :
            /\ \E w \in workouts : w.id = r.id
            /\ StoredRow(r.id).userId = u

\* C1 witness: the dashboard listed a user's workouts of a day on which another
\* user has a workout at the very same instant.
C1_Witness ==
    /\ last.op = "DashboardPage"
    /\ last.result.t = "render"
    /\ \E r \in Listed(last.result.workouts) :
          \E w \in workouts : w.userId # last.userId /\ w.date = r.date

\* C2: in every reachable state, getWorkoutById(id, A) is absent for every
\* workout stored for a user other than A, and the edit page never renders a
\* workout of another user.
C2_ByIdAbsentForOthers ==
    /\ \A a \in Users, w \in workouts :
          w.userId # a => getWorkoutById(w.id, a) = Null
    /\ (last.op = "EditWorkoutPage" /\ last.result.t = "render")
          => last.result.workout.userId = last.userId

\* C2 witness: the edit page was asked by A for B's workout and got nothing.
C2_Witness ==
    /\ last.op = "EditWorkoutPage"
    /\ last.helper.t = "call"
    /\ \E w \in workouts :
          w.id = last.helper.args.workoutId /\ w.userId # last.userId
    /\ last.result = [t |-> "redirect", to |-> "/dashboard"]

\* C3: a step of updateWorkout by user A leaves every row of every other user
\* as it is, updatedAt included; when the id is that of another user's workout
\* the table does not change at all.
C3_UpdateLeavesOthersAlone ==
    [][last'.op = "updateWorkout" =>
          /\ \A w \in workouts : w.userId # last'.userId => w \in workouts'
          /\ (\E w \in workouts :
                  w.id = last'.params.workoutId /\ w.userId # last'.userId)
                => workouts' = workouts /\ clock' = clock]_vars

\* C3 witness: A sent a valid update for the id of B's workout, with B's user
\* id among the parameters, and the store answered.
C3_Witness ==
    /\ last.op = "updateWorkout"
    /\ last.userId \in Users
    /\ last.helper.t = "call"
    /\ ~last.storeFailed
    /\ last.params.userId # last.userId
    /\ \E w \in workouts : w.id = last.params.workoutId /\ w.userId = last.params.userId

\* C4: updateWorkout by an authenticated user with valid input, on an id that
\* is not the id of one of the user's workouts (another user's, or no
\* workout's), returns success=false with the one string
\* 'Workout not found or you do not have permission to edit it' whenever the
\* store answers.
C4_NotFoundIsUniform ==
    (/\ last.op = "updateWorkout"
     /\ last.userId \in Users
     /\ InputIsValid(last.params)
     /\ ~last.storeFailed
     /\ ~\E w \in workouts : w.id = last.params.workoutId /\ w.userId = last.userId)
    => last.result = [success |-> FALSE,
                      errors |-> [typeof |-> "string", message |-> NotFoundMessage]]

\* C4 witness: the not-found answer was given for the id of another user's
\* workout.
C4_Witness ==
    /\ last.op = "updateWorkout"
    /\ last.result.success = FALSE
    /\ last.result.errors.typeof = "string"
    /\ last.result.errors.message = NotFoundMessage
    /\ \E w \in workouts : w.id = last.params.workoutId /\ w.userId # last.userId

\* C5: a row with a new id appears only in a step of createWorkout and is
\* stored with the userId auth() gave for that request, whatever the
\* parameters hold; the userId of a stored row never changes.
C5_CreatedForPrincipal ==
    [][/\ \A w \in workouts' :
            (\A v \in workouts : v.id # w.id)
                => /\ last'.op = "createWorkout"
                   /\ last'.userId \in Users
                   /\ w.userId = last'.userId
       /\ \A v \in workouts, w \in workouts' : v.id = w.id => v.userId = w.userId]_vars

\* C5 witness: a workout was created by a request whose parameters named
\* another user.
C5_Witness ==
    /\ last.op = "createWorkout"
    /\ last.result.success
    /\ last.params.userId # last.userId
    /\ last.result.data \in workouts
    /\ last.result.data.userId = last.userId

\* C6: every workout getWorkoutsByDate(userId, date) returns is dated at or
\* after 00:00:00.000 of date's local calendar day and before the next local
\* midnight.
C6_WithinLocalDay ==
    \A u \in Users, d \in QueryDates :
        \A r \in Returned(u, d) :
            /\ r.date >= CalendarDayStart(d)
            /\ r.date < CalendarDayStart(d) + DayMs

\* C6 witness: the dashboard listed a day's workouts while the same user has a
\* workout dated at the next day's midnight, which is not in the list.
C6_Witness ==
    /\ last.op = "DashboardPage"
    /\ last.result.t = "render"
    /\ last.result.workouts # <<>>
    /\ \E w \in workouts :
          /\ w.userId = last.userId
          /\ w.date = CalendarDayStart(last.helper.args.date) + DayMs
          /\ \A r \in Listed(last.result.workouts) : r.id # w.id

\* C7: when validation of createWorkout's or updateWorkout's input fails
\* (a signed-in request with an invalid name or date), the answer is
\* success=false with a non-empty map keyed by the invalid fields, the data
\* helper is not called, and the step changes nothing in the store; a request
\* with such input writes nothing whoever sends it.
C7_InvalidInputWritesNothing ==
    /\ []((IsMutation(last) /\ last.userId \in Users /\ ~InputIsValid(last.params))
            => /\ last.result.success = FALSE
               /\ last.result.errors.typeof = "object"
               /\ DOMAIN last.result.errors.fields # {}
               /\ DOMAIN last.result.errors.fields \subseteq {"name", "date"}
               /\ \A k \in DOMAIN last.result.errors.fields :
                      Len(last.result.errors.fields[k]) >= 1
               /\ last.helper = NoCall)
    /\ [][(IsMutation(last') /\ ~InputIsValid(last'.params))
            => /\ workouts' = workouts
               /\ nextId' = nextId
               /\ clock' = clock]_vars

\* C7 witness: a signed-in createWorkout with an empty name was answered with
\* field errors while workouts are stored.
C7_Witness ==
    /\ last.op = "createWorkout"
    /\ last.userId \in Users
    /\ last.params.name = ""
    /\ last.result.errors.typeof = "object"
    /\ workouts # {}

\* C8: every durationMinutes that createWorkout or updateWorkout hands to the
\* data helper is 'not provided' or a positive integer.
C8_DurationPositive ==
    (IsMutation(last) /\ last.helper.t = "call")
        => \/ PassedDuration(last) = Undefined
           \/ PassedDuration(last).t = "num" /\ PassedDuration(last).v > 0

\* C9: right after createWorkout stored a workout, every getWorkoutsByDate
\* that returns it gives a null duration when the durationMinutes input was
\* absent or blank, and n when it was the numeral of a positive n.
C9_FetchedDuration ==
    (last.op = "createWorkout" /\ last.result.success)
        => \A u \in Users, d \in QueryDates :
              \A r \in Returned(u, d) :
                  r.id = last.result.data.id
                      => /\ (\/ last.params.durationMinutes = Undefined
                             \/ last.params.durationMinutes = Str(<<>>))
                                => r.durationMinutes = Null
                         /\ \A n \in 1..99 :
                                last.params.durationMinutes = Str(Numeral(n))
                                    => r.durationMinutes = Num(n)

\* C9 witness: a workout created without a duration is returned by
\* getWorkoutsByDate with a null duration, while another stored workout has a
\* positive one.
C9_Witness ==
    /\ last.op = "createWorkout"
    /\ last.result.success
    /\ last.params.durationMinutes = Undefined
    /\ \E d \in QueryDates :
          \E r \in Returned(last.userId, d) :
              r.id = last.result.data.id /\ r.durationMinutes = Null
    /\ \E w \in workouts : w.durationMinutes = Num(45)

\* C10: when createWorkout or updateWorkout answers success, no rendering of
\* /dashboard made before the mutation is left in the cache.
C10_CacheInvalidated ==
    (IsMutation(last) /\ last.result.success) => "/dashboard" \notin cache

\* C11: when the store operation of createWorkout or updateWorkout fails, the
\* action answers success=false with the one generic string of that action
\* (an answer, not an exception), the helper was called for that one attempt,
\* and the step writes nothing: no later attempt gets the write through.
C11_StoreFailureIsGenericAndFinal ==
    /\ []((IsMutation(last) /\ last.storeFailed)
            => /\ last.helper.t = "call"
               /\ last.result =
                      [success |-> FALSE,
                       errors |-> [typeof |-> "string",
                                   message |->
                                       IF last.op = "createWorkout"
                                       THEN "Failed to create workout. Please try again."
                                       ELSE "Failed to update workout. Please try again."]])
    /\ [][(IsMutation(last') /\ last'.storeFailed)
            => /\ workouts' = workouts
               /\ nextId' = nextId
               /\ clock' = clock]_vars

\* C11 witness: the store failed under an update of a workout the caller owns.
C11_Witness ==
    /\ last.op = "updateWorkout"
    /\ last.storeFailed
    /\ last.result.success = FALSE
    /\ \E w \in workouts : w.id = last.params.workoutId /\ w.userId = last.userId

\* C12: a signed-in createWorkout or updateWorkout reports an error under the
\* field key 'name' exactly when the name's length is outside 1..255; the
\* message is 'Workout name is required' for the empty name and 'Workout name
\* is too long' for a name of 256 characters or more.
C12_NameLengthBounds ==
    (IsMutation(last) /\ last.userId # NoUser)
        => LET n == Len(last.params.name)
               rejected == /\ ~last.result.success
                           /\ last.result.errors.typeof = "object"
                           /\ "name" \in DOMAIN last.result.errors.fields
           IN  /\ rejected <=> ~(n >= 1 /\ n <= 255)
               /\ n = 0 => /\ rejected
                           /\ last.result.errors.fields.name = <<"Workout name is required">>
               /\ n >= 256 => /\ rejected
                              /\ last.result.errors.fields.name = <<"Workout name is too long">>

\* C12 witness: a name of 255 characters is stored and one of 256 is refused.
C12_Witness ==
    /\ \E w \in workouts : Len(w.name) = 255
    /\ IsMutation(last)
    /\ Len(last.params.name) = 256
    /\ ~last.result.success
    /\ last.result.errors.typeof = "object"
    /\ "name" \in DOMAIN last.result.errors.fields

\* C13: in every workout of every array that getWorkoutsByDate handed to the
\* dashboard, the exercises come in non-decreasing orderIndex and the sets of
\* each exercise in non-decreasing setNumber, whatever the order in which the
\* rows were inserted.
C13_NestedOrder ==
    (last.op = "DashboardPage" /\ last.result.t = "render")
        => \A r \in Listed(last.result.workouts) :
              /\ \A i, j \in DOMAIN r.exercises :
                    i < j => r.exercises[i].orderIndex <= r.exercises[j].orderIndex
              /\ \A e \in Listed(r.exercises) :
                    \A i, j \in DOMAIN e.sets :
                        i < j => e.sets[i].setNumber <= e.sets[j].setNumber

\* C13 witness: exercises inserted with order indices 0, 2, 1 and sets inserted
\* with set numbers 2, 1 reached the dashboard as 0, 1, 2 and 1, 2.
C13_Witness ==
    /\ last.op = "DashboardPage"
    /\ last.result.t = "render"
    /\ {<<we.id, we.orderIndex>> : we \in workoutExercises} = {<<1, 0>>, <<2, 2>>, <<3, 1>>}
    /\ \E r \in Listed(last.result.workouts) :
          /\ Len(r.exercises) = 3
          /\ [i \in 1..3 |-> r.exercises[i].orderIndex] = <<0, 1, 2>>
          /\ \E e \in Listed(r.exercises) :
                /\ Len(e.sets) = 2
                /\ <<e.sets[1].id, e.sets[1].setNumber>> = <<2, 1>>
                /\ <<e.sets[2].id, e.sets[2].setNumber>> = <<1, 2>>

\* C14: every array getWorkoutsByDate may return is in non-increasing date
\* order with workouts of equal date in the order of their identifiers, so
\* that any two calls over the same data return the same sequence.
C14_StableDateOrder ==
    \A u \in Users, d \in QueryDates :
        /\ \A res \in getWorkoutsByDate(u, d) :
              \A i, j \in DOMAIN res :
                  i < j => /\ res[i].date >= res[j].date
                           /\ res[i].date = res[j].date => res[i].id < res[j].id
        /\ \A res1, res2 \in getWorkoutsByDate(u, d) :
              [i \in DOMAIN res1 |-> res1[i].id] = [i \in DOMAIN res2 |-> res2[i].id]

\* C15: under any inserts and deletes on the four tables every set refers to
\* a stored workout exercise and every workout exercise to a stored workout
\* and a stored exercise; a delete of a workout removes exactly that workout,
\* its workout exercises and their sets; a delete of an exercise that a
\* workout exercise refers to is rejected and changes no table.
C15_ReferentialIntegrity ==
    /\ [](/\ \A s \in sets : \E we \in workoutExercises : we.id = s.workoutExerciseId
          /\ \A we \in workoutExercises :
                /\ \E w \in workouts : w.id = we.workoutId
                /\ \E e \in exercises : e.id = we.exerciseId)
    /\ [][last'.op = "deleteWorkout"
            => /\ workouts' = {w \in workouts : w.id # last'.id}
               /\ workoutExercises' = {we \in workoutExercises : we.workoutId # last'.id}
               /\ sets' = {s \in sets :
                              \A we \in workoutExercises :
                                  we.id = s.workoutExerciseId => we.workoutId # last'.id}
               /\ exercises' = exercises]_vars
    /\ [][(/\ last'.op = "deleteExercise"
           /\ \E we \in workoutExercises : we.exerciseId = last'.id)
            => /\ last'.outcome = "rejected"
               /\ UNCHANGED <<workouts, exercises, workoutExercises, sets>>]_vars

\* C15 witness: a workout was deleted while another workout keeps a workout
\* exercise with a set; rows with lower ids are gone.
C15_Witness ==
    /\ last.op = "deleteWorkout"
    /\ last.outcome = "done"
    /\ \E we \in workoutExercises, s \in sets :
          /\ s.workoutExerciseId = we.id
          /\ we.workoutId # last.id
          /\ we.id > 1
          /\ s.id > 1
          /\ \A other \in workoutExercises : other.id >= we.id
          /\ \A other \in sets : other.id >= s.id

\* C16: when two updateWorkout calls of the owner on the same stored workout
\* have both returned and the store threw in neither, both returned success
\* and the stored name, date and duration are all those of the call whose
\* statement the store applied last.
C16_LastWriteWins ==
    \A c1, c2 \in Calls :
        (/\ inflight[c1].pc = "done"
         /\ inflight[c2].pc = "done"
         /\ InputIsValid(inflight[c1].params)
         /\ InputIsValid(inflight[c2].params)
         /\ inflight[c1].userId = inflight[c2].userId
         /\ inflight[c1].params.workoutId = inflight[c2].params.workoutId
         /\ "appliedAt" \in DOMAIN inflight[c1]
         /\ "appliedAt" \in DOMAIN inflight[c2]
         /\ \E w \in workouts : /\ w.id = inflight[c1].params.workoutId
                                /\ w.userId = inflight[c1].userId
                                /\ w.createdAt < inflight[c1].appliedAt
         /\ inflight[c1].appliedAt < inflight[c2].appliedAt)
            => LET w == StoredRow(inflight[c2].params.workoutId)
                   p == inflight[c2].params
               IN  /\ inflight[c1].result.success
                   /\ inflight[c2].result.success
                   /\ w.name = p.name
                   /\ w.date = DateParse(p.date).v
                   /\ p.durationMinutes = Undefined => w.durationMinutes = Null
                   /\ \A n \in 1..99 :
                          p.durationMinutes = Str(Numeral(n)) => w.durationMinutes = Num(n)

\* C16 witness: two calls of the owner with different names, dates and
\* durations were in flight together and have both returned.
C16_Witness ==
    /\ inflight[1].pc = "done"
    /\ inflight[2].pc = "done"
    /\ inflight[1].userId = "user_1"
    /\ inflight[2].userId = "user_1"
    /\ inflight[1].result.success
    /\ inflight[2].result.success
    /\ inflight[1].params.name # inflight[2].params.name
    /\ inflight[2].appliedAt < inflight[1].appliedAt
    /\ \E w \in workouts : w.id = 1 /\ w.name = inflight[1].params.name

\* two decimals that are the same number
SameNumber(x, y) ==
    LET e == IF x.exp > y.exp THEN x.exp ELSE y.exp
        xs == BigScale10(x.mag, e - x.exp)
        ys == BigScale10(y.mag, e - y.exp)
    IN  /\ xs = ys
        /\ xs # <<>> => x.neg = y.neg

\* strings that look like a number, with the number each denotes
NumericStrings ==
    {<<Str(<<"1", "0", "0", ".", "0", "0">>), Decimal(100, 0)>>,
     <<Str(<<"1", "8", "5", ".", "5">>), Decimal(1855, 1)>>,
     <<Str(<<"-", "5", ".", "2", "5">>), Decimal(0 - 525, 2)>>,
     <<Str(<<" ", "4", "2">>), Decimal(42, 0)>>}

\* strings that do not parse as a number
NonNumericStrings == {Str(<<"a", "b", "c">>), Str(<<>>), Str(<<".">>), Str(<<"-">>)}

IsConversion(r) == r.op = "convertWeight"

\* C17: convertWeight(w, u, u) returns the number w itself, in the very
\* representation it was given (nothing is multiplied in), and for a string
\* that looks like a number it returns the number the string denotes.
C17_SameUnitIsIdentity ==
    (IsConversion(last) /\ last.fromUnit = last.toUnit)
        => /\ last.weight.t = "num" => last.result = last.weight
           /\ \A pair \in NumericStrings :
                  last.weight = pair[1] => SameNumber(last.result, pair[2])

\* C17 witness: the string "185.5" was converted from kg to kg and came back
\* as a number with one decimal place.
C17_Witness ==
    /\ IsConversion(last)
    /\ last.fromUnit = "kg"
    /\ last.toUnit = "kg"
    /\ last.weight = Str(<<"1", "8", "5", ".", "5">>)
    /\ last.result = Decimal(1855, 1)

\* C18: convertWeight returns 0 when the weight is NaN or a string that does
\* not parse as a number, for every pair of units, equal units included.
C18_InvalidWeightIsZero ==
    (IsConversion(last) /\ (last.weight = NaN \/ last.weight \in NonNumericStrings))
        => /\ last.result.t = "num"
           /\ last.result.mag = <<>>

\* C18 witness: a string without a digit was converted between equal units.
C18_Witness ==
    /\ IsConversion(last)
    /\ last.weight = Str(<<"a", "b", "c">>)
    /\ last.fromUnit = "lbs"
    /\ last.toUnit = "lbs"
    /\ last.result = Decimal(0, 0)

\* C19: for a weight w that is a number, convertWeight(w, 'lbs', 'kg') is
\* w * 0.453592 and convertWeight(w, 'kg', 'lbs') is w * 2.20462; 100 lbs give
\* 45.3592 kg and 100 kg give 220.462 lbs.
C19_ConversionFactors ==
    (IsConversion(last) /\ last.weight.t = "num")
        => /\ (last.fromUnit = "lbs" /\ last.toUnit = "kg")
                => /\ SameNumber(last.result, Times(Decimal(453592, 6), last.weight))
                   /\ SameNumber(last.weight, Decimal(100, 0))
                         => SameNumber(last.result, Decimal(453592, 4))
           /\ (last.fromUnit = "kg" /\ last.toUnit = "lbs")
                => /\ SameNumber(last.result, Times(Decimal(220462, 5), last.weight))
                   /\ SameNumber(last.weight, Decimal(100, 0))
                         => SameNumber(last.result, Decimal(220462, 3))

\* C19 witness: 100 was converted from pounds to kilograms.
C19_Witness ==
    /\ IsConversion(last)
    /\ last.weight = Decimal(100, 0)
    /\ last.fromUnit = "lbs"
    /\ last.toUnit = "kg"
    /\ last.result.exp = 6
    /\ last.result.mag = <<200, 359, 45>>

\* C20: when a non-zero number w was converted from pounds to kilograms and
\* the outcome is converted back to pounds, the result is
\* w * 0.453592 * 2.20462, is not w, and is off w by a part of w that rounds
\* to 0.0002% (at least 0.00015% and less than 0.00025%).
C20_RoundTripDrift ==
    \A w \in WeightNumbers :
        (/\ IsConversion(last)
         /\ w.mag # <<>>
         /\ last.weight = convertWeight(w, "lbs", "kg")
         /\ last.fromUnit = "kg"
         /\ last.toUnit = "lbs")
            => LET back == last.result
                   whole == BigScale10(w.mag, back.exp - w.exp)
                   off == IF BigLess(back.mag, whole) THEN BigSub(whole, back.mag)
                          ELSE BigSub(back.mag, whole)
               IN  /\ SameNumber(back, Times(w, Times(Decimal(453592, 6),
                                                      Decimal(220462, 5))))
                   /\ ~SameNumber(back, w)
                   /\ back.neg = w.neg
                   /\ ~BigLess(BigScale10(off, 7), BigMulSmall(whole, 15))
                   /\ BigLess(BigScale10(off, 7), BigMulSmall(whole, 25))

\* C20 witness: 100 lbs went to kilograms and back and came out as
\* 99.999799504 lbs.
C20_Witness ==
    /\ IsConversion(last)
    /\ last.weight = convertWeight(Decimal(100, 0), "lbs", "kg")
    /\ last.fromUnit = "kg"
    /\ last.toUnit = "lbs"
    /\ last.result.exp = 11
    /\ last.result.mag = <<400, 950, 979, 999, 9>>

\* the unit a dashboard just rendered was shown in
RenderedUnit == last.result.unit

\* the dashboard has just been rendered
IsDashboard(r) == r.op = "DashboardPage" /\ r.result.t = "render"

\* C21: getWeightUnitPreference returns the cookie's value when that is
\* exactly 'lbs' or 'kg', and 'lbs' when the cookie is absent or holds any
\* other value; the result is always one of the two units.
C21_PreferenceIsCookieOrDefault ==
    IsDashboard(last)
        => /\ RenderedUnit \in {"lbs", "kg"}
           /\ RenderedUnit = getWeightUnitPreference
           /\ (cookie.present /\ cookie.value \in {"lbs", "kg"}) => RenderedUnit = cookie.value
           /\ (~cookie.present \/ cookie.value \notin {"lbs", "kg"}) => RenderedUnit = "lbs"

\* a dashboard rendered while the cookie holds 'stone'
C21_Witness ==
    /\ IsDashboard(last)
    /\ cookie = [present |-> TRUE, value |-> "stone"]
    /\ RenderedUnit = "lbs"

\* C22: after any calls of setWeightUnitPreference the 'weight-unit' cookie
\* holds 'lbs' or 'kg'.  The action stores its argument as it comes, so this
\* fails once a client sends another string.
C22_CookieIsAUnit == cookie.present => cookie.value \in {"lbs", "kg"}

\* the stored set a row of a sets table shows
StoredSet(row) == CHOOSE set \in sets : set.id = row.key

\* the rows of all sets tables of a rendered dashboard
RenderedRows(result) ==
    {result.cards[i].exercises[j].rows[k] :
        <<i, j, k>> \in {t \in (DOMAIN result.cards) \X (1..MaxWorkoutExerciseIds) \X (1..MaxSetIds) :
                            /\ t[2] \in DOMAIN result.cards[t[1]].exercises
                            /\ t[3] \in DOMAIN result.cards[t[1]].exercises[t[2]].rows}}

\* C23: setWeightUnitPreference changes no workout, exercise or set row, and
\* the weight a dashboard shows for a set is convertWeight(stored weight,
\* 'lbs', current preference) to one decimal, whatever was selected before.
C23_PreferenceIsPresentationOnly ==
    /\ [](IsDashboard(last)
            => \A row \in RenderedRows(last.result) :
                  row.weight = toFixed(convertWeight(StoredSet(row).weight, "lbs",
                                                     getWeightUnitPreference), 1))
    /\ [][last'.op = "setWeightUnitPreference"
            => UNCHANGED <<workouts, exercises, workoutExercises, sets>>]_vars

\* 185.50 lb shown as 84.1 on a dashboard rendered with kg selected
C23_Witness ==
    /\ IsDashboard(last)
    /\ cookie = [present |-> TRUE, value |-> "kg"]
    /\ cache = {"/dashboard"}
    /\ \E row \in RenderedRows(last.result) :
          /\ StoredSet(row).weight = Str(<<"1", "8", "5", ".", "5", "0">>)
          /\ row.weight = <<"8", "4", ".", "1">>

\* C24: EditWorkoutPage renders the form only for a workout of the
\* authenticated user with the id asked for; it redirects to /sign-in when
\* there is no user, and to /dashboard when the id segment parses to NaN and
\* when the user has no workout of that id, be it another user's or nobody's.
C24_EditPageOutcomes ==
    last.op = "EditWorkoutPage"
        => LET id == parseInt(last.params.workoutId)
               own == {w \in workouts : id.t = "num" /\ w.id = id.v /\ w.userId = last.userId}
           IN  /\ last.userId = NoUser
                     => last.result = [t |-> "redirect", to |-> "/sign-in"]
               /\ (last.userId # NoUser /\ own = {})
                     => last.result = [t |-> "redirect", to |-> "/dashboard"]
               /\ (last.userId # NoUser /\ own # {})
                     => /\ last.result.t = "render"
                        /\ last.result.workout \in own

\* a user asked for the edit page of another user's workout
C24_Witness ==
    /\ last.op = "EditWorkoutPage"
    /\ last.userId \in Users
    /\ \E w \in workouts :
          /\ Num(w.id) = parseInt(last.params.workoutId)
          /\ w.userId # last.userId
    /\ last.result = [t |-> "redirect", to |-> "/dashboard"]
    /\ last.helper # NoCall

\* C25: createWorkout and updateWorkout look at the user first: with no
\* authenticated user the answer is success=false with the string
\* 'Authentication required' whatever the input, valid or not, the data helper
\* is not called and the step changes nothing in the store.
C25_AuthenticationFirst ==
    /\ []((IsMutation(last) /\ last.userId = NoUser)
            => /\ last.result = Failure("Authentication required")
               /\ last.helper = NoCall
               /\ ~last.storeFailed)
    /\ [][(IsMutation(last') /\ last'.userId = NoUser)
            => /\ workouts' = workouts
               /\ nextId' = nextId
               /\ clock' = clock]_vars

\* an update with invalid input sent with no user, while workouts are stored
C25_Witness ==
    /\ last.op = "updateWorkout"
    /\ last.userId = NoUser
    /\ ~InputIsValid(last.params)
    /\ last.result = Failure("Authentication required")
    /\ workouts # {}

\* C26: getWorkoutsByDate(userId, date) omits no workout of the day: every
\* workout of userId dated at or after the local day's 00:00:00.000 and before
\* the next local midnight is in the result.  The query's upper bound is
\* lt(date, 23:59:59.999), so a workout dated at the day's last millisecond is
\* left out.
C26_NoWorkoutOmitted ==
    \A u \in Users, d \in QueryDates :
        \A w \in workouts :
            (/\ w.userId = u
             /\ w.date >= CalendarDayStart(d)
             /\ w.date < CalendarDayStart(d) + DayMs)
                => \A res \in getWorkoutsByDate(u, d) : \E r \in Listed(res) : r.id = w.id

\* the calendar days whose dashboard lists the workout of this id for userId
DaysListing(userId, id) ==
    {d \in 0..3 : \E res \in getWorkoutsByDate(userId, LocalDate(d)) :
                     \E r \in Listed(res) : r.id = id}

\* C27: a workout created with the date string 'YYYY-MM-DD' is listed on the
\* dashboard opened with ?date=YYYY-MM-DD by the same user and on no other
\* day, in every time zone of the server.  new Date('YYYY-MM-DD') is UTC
\* midnight and the read window is the local day, so west of UTC the workout
\* is listed the day before.
C27_ListedOnItsDay ==
    (/\ last.op = "createWorkout"
     /\ last.result.success
     /\ last.params.date.form = "YYYY-MM-DD")
        => DaysListing(last.userId, last.result.data.id) = {last.params.date.day}

\* no load of the component is on its way
LoadsSettled == \A i \in DOMAIN client.loads : client.loads[i].pc = "done"

\* the load the effect started for the date now selected
LatestLoad == client.loads[Len(client.loads)]

\* C28: once every load of DashboardClient has completed, the list shown is
\* what the load for the selected date returned, in whatever order the answers
\* came; stated for a last load that was answered with a list.  loadWorkouts
\* calls setWorkouts with whatever answer arrives, so the answer for an
\* earlier date that arrives last stays on the screen.
C28_LatestSelectionShown ==
    (client.mounted /\ LoadsSettled /\ LatestLoad.outcome = "fulfilled")
        => /\ LatestLoad.date = client.selectedDate
           /\ client.workouts = LatestLoad.data

\* the form can be used again and shows one kind of error
FormShowsOneError ==
    /\ FormPc = "idle"
    /\ ~form.isSubmitting
    /\ (form.generalError # "") # (DOMAIN form.errors # {})

\* C29: every submission of the new-workout or edit-workout form ends in
\* navigation to /dashboard or in the form enabled again with exactly one of
\* the general error and the field errors shown, also when the awaited call
\* rejects.  handleSubmit has no catch or finally around the await, so after a
\* rejected call isSubmitting stays true.
C29_SubmissionEnds ==
    (FormPc = "calling") ~> (FormPc = "navigated" \/ FormShowsOneError)

\* C30: in each workout getWorkoutsByDate returns, the exercise entries have
\* pairwise distinct ids, which the dashboard uses as list keys.  An entry's
\* id is that of the catalog exercise (id: we.exercise.id), and nothing in
\* the schema keeps a workout from holding the same exercise twice.
C30_ExerciseKeysDistinct ==
    IsDashboard(last)
        => \A i \in DOMAIN last.result.workouts :
              LET entries == last.result.workouts[i].exercises
              IN  \A j, k \in DOMAIN entries :
                      entries[j].id = entries[k].id => j = k

====
